---- MODULE Spec2Model ----
(***************************************************************************)
(* Model of workshops/script_detection/model.py: the padding/batching      *)
(* helpers, Trainer.train() with its epoch, validation, checkpoint and     *)
(* early-stop steps, and Runner.script().                                  *)
(*                                                                         *)
(* A loss value is a rational kept as the pair <<numerator, denominator>>: *)
(* the code divides the accumulated loss by example_count (true division). *)
(***************************************************************************)
EXTENDS Integers, Sequences, FiniteSets, TLC

VARIABLES
    train_len,      \* len(self.train_data)
    valid_len,      \* len(self.valid_data)
    train_history,  \* self.train_history
    valid_history,  \* self.valid_history
    steps,          \* number of train_op updates applied to the parameters
    checkpoints,    \* epoch index -> parameter version stored in <epoch>.ckpt
    save_log,       \* epoch indices passed to save(), in call order
    pc,             \* position inside train()
    batch_id,       \* loop variable of the running pass
    batch_count,    \* local of the running pass
    epoch_loss,     \* local accumulator of the running pass
    fed,            \* index ranges given to _get_padded_batch in the running pass
    err,            \* exception that ended train(), or "none"
    image_data,     \* dataset handed to _get_padded_batch / Runner.script
    result          \* what the last call of _get_padded_batch or Runner.script gave

trainer_vars == <<train_len, valid_len, train_history, valid_history, steps,
                  checkpoints, save_log, pc, batch_id, batch_count, epoch_loss,
                  fed, err>>
batch_vars == <<image_data, result>>
vars == <<train_len, valid_len, train_history, valid_history, steps,
          checkpoints, save_log, pc, batch_id, batch_count, epoch_loss,
          fed, err, image_data, result>>

(***************************************************************************)
(* Program constants.                                                      *)
(***************************************************************************)
early_stop_after == 4
batch_size == 32
padding_value == 0

(***************************************************************************)
(* Bounds of the model.                                                    *)
(***************************************************************************)
MaxBatches == 3     \* SpecBatches: datasets hold up to MaxBatches full batches
MaxLoss == 2        \* Spec, SpecLong: a fetched loss is one of 1..MaxLoss
MaxEpochs == 5      \* Spec starts at most MaxEpochs epochs
ExampleEpochs == 6  \* SpecExample starts at most ExampleEpochs epochs
MaxSamples == 2     \* SpecData: datasets hold 1..MaxSamples samples
MaxWidth == 2       \* SpecData: a line image is 1..MaxWidth columns wide

None == "none"

(***************************************************************************)
(* Trainer helpers.                                                        *)
(***************************************************************************)
\* a < b for rationals <<n, d>> with d > 0
RatLess(a, b) == a[1] * b[2] < b[1] * a[2]

\* np.argmin: 0-based index of the first occurrence of the minimum
RECURSIVE ArgMinFromTies(_, _, _)
\* a later entry equal to the best one replaces it
ArgMinFromTies(h, i, best) ==
    IF i > Len(h) THEN best - 1
    ELSE IF ~RatLess(h[best], h[i]) THEN ArgMinFromTies(h, i + 1, i)
         ELSE ArgMinFromTies(h, i + 1, best)

RECURSIVE ArgMinFrom(_, _, _)
ArgMinFrom(h, i, best) ==
    IF i > Len(h) THEN best - 1
    ELSE IF RatLess(h[i], h[best]) THEN ArgMinFrom(h, i + 1, i)
         ELSE ArgMinFrom(h, i + 1, best)

\* the index of the last occurrence of the minimum instead of the first
argmin_last(h) ==
    CHOOSE m \in 0..(Len(h) - 1) :
        /\ \A j \in 1..Len(h) : ~RatLess(h[j], h[m + 1])
        /\ \A j \in (m + 2)..Len(h) : RatLess(h[m + 1], h[j])

argmin(h) == ArgMinFrom(h, 2, 1)

\* the comparison <= instead of <
_early_stop_le(h) == argmin(h) + early_stop_after <= Len(h)

_early_stop(h) == argmin(h) + early_stop_after < Len(h)

\* rounding up: a trailing partial batch counts as a batch
_batch_count_ceil(data_length) == (data_length + batch_size - 1) \div batch_size

_batch_count(data_length) == data_length \div batch_size

_checkpoint(epoch) == epoch

(***************************************************************************)
(* Trainer.__init__                                                        *)
(***************************************************************************)
Remainders == {0, 4, batch_size - 1}
Lens == {q * batch_size + r : q \in 0..MaxBatches, r \in Remainders}

NotCalled == [call |-> None]

IdleBatch == /\ image_data = <<>>
             /\ result = NotCalled

TrainerInit(tl, vl, at) ==
    /\ train_len = tl
    /\ valid_len = vl
    /\ train_history = <<>>
    /\ valid_history = <<>>
    /\ steps = 0
    /\ checkpoints = <<>>
    /\ save_log = <<>>
    /\ pc = at
    /\ batch_id = 0
    /\ batch_count = 0
    /\ epoch_loss = 0
    /\ fed = <<>>
    /\ err = None

(***************************************************************************)
(* Trainer.train(), one action per step of the loop body.                  *)
(***************************************************************************)
Abort(e) == /\ pc' = "aborted"
            /\ err' = e

\* _train_epoch, up to the batch loop
TrainEpochBegin(cap) ==
    /\ pc = "epoch_start"
    /\ Len(train_history) < cap
    /\ epoch_loss' = 0
    /\ batch_count' = _batch_count(train_len)
    /\ batch_id' = 0
    /\ fed' = <<>>
    /\ pc' = "train_loop"
    /\ UNCHANGED <<train_len, valid_len, train_history, valid_history, steps,
                   checkpoints, save_log, err>>
    /\ UNCHANGED batch_vars

\* one iteration of the batch loop of _train_epoch
TrainBatch(losses) ==
    /\ pc = "train_loop"
    /\ batch_id < batch_count
    /\ \E loss \in losses :
        LET batch_start == batch_id * batch_size
            batch_end == batch_start + batch_size
        IN /\ fed' = Append(fed, <<batch_start, batch_end>>)
           /\ epoch_loss' = epoch_loss + loss * batch_size
    /\ steps' = steps + 1
    /\ batch_id' = batch_id + 1
    /\ UNCHANGED <<train_len, valid_len, train_history, valid_history,
                   checkpoints, save_log, pc, batch_count, err>>
    /\ UNCHANGED batch_vars

\* session.run raises inside the batch loop of _train_epoch
TrainBatchFail ==
    /\ pc = "train_loop"
    /\ batch_id < batch_count
    /\ Abort("TensorError")
    /\ UNCHANGED <<train_len, valid_len, train_history, valid_history, steps,
                   checkpoints, save_log, batch_id, batch_count, epoch_loss, fed>>
    /\ UNCHANGED batch_vars

\* _train_epoch after the batch loop, assigning the history instead of appending
TrainEpochEndAssign ==
    /\ pc = "train_loop"
    /\ batch_id = batch_count
    /\ LET example_count == batch_count * batch_size
       IN IF example_count = 0
          THEN /\ Abort("ZeroDivisionError")
               /\ UNCHANGED train_history
          ELSE /\ train_history' = <<<<epoch_loss, example_count>>>>
               /\ pc' = "validate"
               /\ UNCHANGED err
    /\ UNCHANGED <<train_len, valid_len, valid_history, steps, checkpoints,
                   save_log, batch_id, batch_count, epoch_loss, fed>>
    /\ UNCHANGED batch_vars

\* _train_epoch after the batch loop
TrainEpochEnd ==
    /\ pc = "train_loop"
    /\ batch_id = batch_count
    /\ LET example_count == batch_count * batch_size
       IN IF example_count = 0
          THEN /\ Abort("ZeroDivisionError")
               /\ UNCHANGED train_history
          ELSE /\ train_history' = Append(train_history, <<epoch_loss, example_count>>)
               /\ pc' = "validate"
               /\ UNCHANGED err
    /\ UNCHANGED <<train_len, valid_len, valid_history, steps, checkpoints,
                   save_log, batch_id, batch_count, epoch_loss, fed>>
    /\ UNCHANGED batch_vars

\* validate, up to the batch loop
ValidateBegin ==
    /\ pc = "validate"
    /\ epoch_loss' = 0
    /\ batch_count' = _batch_count(valid_len)
    /\ batch_id' = 0
    /\ fed' = <<>>
    /\ pc' = "valid_loop"
    /\ UNCHANGED <<train_len, valid_len, train_history, valid_history, steps,
                   checkpoints, save_log, err>>
    /\ UNCHANGED batch_vars

\* one iteration of the batch loop of validate
ValidBatch(losses) ==
    /\ pc = "valid_loop"
    /\ batch_id < batch_count
    /\ \E loss \in losses :
        LET batch_start == batch_id * batch_size
            batch_end == batch_start + batch_size
        IN /\ fed' = Append(fed, <<batch_start, batch_end>>)
           /\ epoch_loss' = epoch_loss + loss * batch_size
    /\ batch_id' = batch_id + 1
    /\ UNCHANGED <<train_len, valid_len, train_history, valid_history, steps,
                   checkpoints, save_log, pc, batch_count, err>>
    /\ UNCHANGED batch_vars

\* session.run raises inside the batch loop of validate, and the entry of the
\* training epoch is taken back
ValidBatchFailRollback ==
    /\ pc = "valid_loop"
    /\ batch_id < batch_count
    /\ Abort("TensorError")
    /\ train_history' = SubSeq(train_history, 1, Len(train_history) - 1)
    /\ UNCHANGED <<train_len, valid_len, valid_history, steps,
                   checkpoints, save_log, batch_id, batch_count, epoch_loss, fed>>
    /\ UNCHANGED batch_vars

\* session.run raises inside the batch loop of validate
ValidBatchFail ==
    /\ pc = "valid_loop"
    /\ batch_id < batch_count
    /\ Abort("TensorError")
    /\ UNCHANGED <<train_len, valid_len, train_history, valid_history, steps,
                   checkpoints, save_log, batch_id, batch_count, epoch_loss, fed>>
    /\ UNCHANGED batch_vars

\* validate after the batch loop, guarding the division against an empty pass
ValidateEndGuarded ==
    /\ pc = "valid_loop"
    /\ batch_id = batch_count
    /\ LET example_count == batch_count * batch_size
       IN valid_history' = Append(valid_history,
              IF example_count = 0 THEN <<0, 1>> ELSE <<epoch_loss, example_count>>)
    /\ pc' = "assert"
    /\ UNCHANGED <<train_len, valid_len, train_history, steps, checkpoints,
                   save_log, batch_id, batch_count, epoch_loss, fed, err>>
    /\ UNCHANGED batch_vars

\* validate after the batch loop
ValidateEnd ==
    /\ pc = "valid_loop"
    /\ batch_id = batch_count
    /\ LET example_count == batch_count * batch_size
       IN IF example_count = 0
          THEN /\ Abort("ZeroDivisionError")
               /\ UNCHANGED valid_history
          ELSE /\ valid_history' = Append(valid_history, <<epoch_loss, example_count>>)
               /\ pc' = "assert"
               /\ UNCHANGED err
    /\ UNCHANGED <<train_len, valid_len, train_history, steps, checkpoints,
                   save_log, batch_id, batch_count, epoch_loss, fed>>
    /\ UNCHANGED batch_vars

\* assert len(self.valid_history) == len(self.train_history)
AssertLen ==
    /\ pc = "assert"
    /\ IF Len(valid_history) = Len(train_history)
       THEN /\ pc' = "save"
            /\ UNCHANGED err
       ELSE Abort("AssertionError")
    /\ UNCHANGED <<train_len, valid_len, train_history, valid_history, steps,
                   checkpoints, save_log, batch_id, batch_count, epoch_loss, fed>>
    /\ UNCHANGED batch_vars

\* the checkpoint tagged len(self.train_history) instead of len(self.train_history) - 1
SaveOffByOne ==
    /\ pc = "save"
    /\ LET epoch == Len(train_history)
       IN /\ checkpoints' = (_checkpoint(epoch) :> steps) @@ checkpoints
          /\ save_log' = Append(save_log, _checkpoint(epoch))
    /\ pc' = "early_stop"
    /\ UNCHANGED <<train_len, valid_len, train_history, valid_history, steps,
                   batch_id, batch_count, epoch_loss, fed, err>>
    /\ UNCHANGED batch_vars

\* epoch = len(self.train_history) - 1; self.save(Trainer._checkpoint(self.output, epoch))
Save ==
    /\ pc = "save"
    /\ LET epoch == Len(train_history) - 1
       IN /\ checkpoints' = (_checkpoint(epoch) :> steps) @@ checkpoints
          /\ save_log' = Append(save_log, _checkpoint(epoch))
    /\ pc' = "early_stop"
    /\ UNCHANGED <<train_len, valid_len, train_history, valid_history, steps,
                   batch_id, batch_count, epoch_loss, fed, err>>
    /\ UNCHANGED batch_vars

\* if self._early_stop(): break
EarlyStop ==
    /\ pc = "early_stop"
    /\ pc' = IF _early_stop(valid_history) THEN "done" ELSE "epoch_start"
    /\ UNCHANGED <<train_len, valid_len, train_history, valid_history, steps,
                   checkpoints, save_log, batch_id, batch_count, epoch_loss, fed, err>>
    /\ UNCHANGED batch_vars

(***************************************************************************)
(* Padding/batching helpers and the Model's prediction.  A line image is   *)
(* a sequence of columns (width axis), a column a sequence of pixels       *)
(* (height axis); a dataset label is an array of one class id.             *)
(***************************************************************************)
output_classes == 4

RECURSIVE concatenate(_)
\* np.concatenate(arrays, axis=0)
concatenate(arrays) ==
    IF arrays = <<>> THEN <<>>
    ELSE Head(arrays) \o concatenate(Tail(arrays))

RECURSIVE max(_)
\* max() of a non-empty sequence of integers
max(xs) ==
    IF Len(xs) = 1 THEN xs[1]
    ELSE LET m == max(Tail(xs)) IN IF xs[1] >= m THEN xs[1] ELSE m

\* binding of a call's arguments to a function's parameters: "ok" or "TypeError"
Bind(params, positional, keywords) ==
    IF positional > Len(params) THEN "TypeError"
    ELSE IF \E k \in keywords : \A i \in 1..Len(params) : params[i] # k THEN "TypeError"
    ELSE IF \E k \in keywords : \E i \in 1..positional : params[i] = k THEN "TypeError"
    ELSE IF \E i \in (positional + 1)..Len(params) : params[i] \notin keywords THEN "TypeError"
    ELSE "ok"

_prepare_data_params == <<"line", "label">>

_prepare_data(line, label) ==
    [line |-> <<line>>, line_width |-> <<Len(line)>>, label |-> <<label>>]

\* the padding put before the image instead of after it
_pad_line_before(line, width, pad) ==
    LET n == Len(line)
        w == Len(line[1])
        h == Len(line[1][1])
        to_pad == width - w
    IN IF n # 1 THEN "AssertionError"
       ELSE IF to_pad < 0 THEN "ValueError"
       ELSE <<[x \in 1..to_pad |-> [y \in 1..h |-> pad]] \o line[1]>>

_pad_line(line, width, pad) ==
    LET n == Len(line)
        w == Len(line[1])
        h == Len(line[1][1])
        to_pad == width - w
    IN IF n # 1 THEN "AssertionError"
       ELSE IF to_pad < 0 THEN "ValueError"
       ELSE <<line[1] \o [x \in 1..to_pad |-> [y \in 1..h |-> pad]]>>

_get_padded_batch(data, from_elem, to_elem, pad) ==
    IF to_elem <= from_elem THEN [call |-> "_get_padded_batch", error |-> "ValueError"]
    ELSE
    LET prepared == [k \in 1..(to_elem - from_elem) |->
                        _prepare_data(data[from_elem + k].line, data[from_elem + k].label)]
        batch_line_width == concatenate([k \in DOMAIN prepared |-> prepared[k].line_width])
        max_width == max(batch_line_width)
        batch_line == concatenate([k \in DOMAIN prepared |->
                                      _pad_line(prepared[k].line, max_width, pad)])
        batch_labels == concatenate([k \in DOMAIN prepared |-> prepared[k].label])
    IN [call |-> "_get_padded_batch", error |-> None, line |-> batch_line, line_width |-> batch_line_width,
        labels |-> batch_labels, from_elem |-> from_elem, to_elem |-> to_elem]

RECURSIVE PixelSum(_, _)
\* sum of the pixels of the first n columns of an image
PixelSum(image, n) ==
    IF n = 0 THEN 0
    ELSE LET col == image[n]
             RECURSIVE ColSum(_)
             ColSum(y) == IF y = 0 THEN 0 ELSE col[y] + ColSum(y - 1)
         IN ColSum(Len(col)) + PixelSum(image, n - 1)

\* Model.outputs: one class id per batch member, computed from the columns
\* below the member's sequence length only
outputs(line_image, line_width) ==
    [k \in DOMAIN line_image |-> PixelSum(line_image[k], line_width[k]) % output_classes]

(***************************************************************************)
(* One call of _get_padded_batch(image_data, from_elem, to_elem, 0);       *)
(* from_elem is 0-based, as in the code.                                   *)
(***************************************************************************)
GetPaddedBatch ==
    /\ pc = "idle"
    /\ \E from_elem \in 0..(Len(image_data) - 1) :
       \E to_elem \in from_elem..Len(image_data) :
          result' = _get_padded_batch(image_data, from_elem, to_elem, padding_value)
    /\ UNCHANGED image_data
    /\ UNCHANGED trainer_vars

(***************************************************************************)
(* Runner.script(line), on a line of the dataset.                          *)
(***************************************************************************)
Script ==
    /\ pc = "idle"
    /\ \E i \in DOMAIN image_data :
        LET line == image_data[i].line
        IN result' =
            IF Bind(_prepare_data_params, 2, {"label"}) # "ok"
            THEN [call |-> "script", line |-> line, error |-> "TypeError", output |-> None]
            ELSE LET p == _prepare_data(line, 1)
                 IN [call |-> "script", line |-> line, error |-> None,
                     output |-> outputs(p.line, p.line_width)]
    /\ UNCHANGED image_data
    /\ UNCHANGED trainer_vars

(***************************************************************************)
(* Spec: train() on one-batch datasets (and datasets too small for a       *)
(* batch), every fetched loss in 1..MaxLoss, at most MaxEpochs epochs.     *)
(***************************************************************************)
SmallTrainLens == {batch_size - 1, batch_size + 4}
SmallValidLens == {batch_size - 1, batch_size}

Train(train_losses, valid_losses, cap) ==
    \/ TrainEpochBegin(cap)
    \/ TrainBatch(train_losses)
    \/ TrainBatchFail
    \/ TrainEpochEnd
    \/ ValidateBegin
    \/ ValidBatch(valid_losses)
    \/ ValidBatchFail
    \/ ValidateEnd
    \/ AssertLen
    \/ Save
    \/ EarlyStop

Init ==
    /\ \E tl \in SmallTrainLens, vl \in SmallValidLens : TrainerInit(tl, vl, "epoch_start")
    /\ IdleBatch

Next == Train(1..MaxLoss, 1..MaxLoss, MaxEpochs)

Spec == Init /\ [][Next]_vars

(***************************************************************************)
(* SpecLong: the same datasets, one training loss, validation losses in    *)
(* 1..MaxLoss, and room for one epoch more than MaxLoss * 5.               *)
(***************************************************************************)
OneLoss == {1}
LongCap == MaxLoss * (early_stop_after + 1) + 1

NextLong == Train(OneLoss, 1..MaxLoss, LongCap)

SpecLong == Init /\ [][NextLong]_vars /\ WF_vars(NextLong)

(***************************************************************************)
(* SpecBatches: datasets of every size in Lens, one loss value.            *)
(***************************************************************************)
InitBatches ==
    /\ \E tl \in Lens, vl \in Lens : TrainerInit(tl, vl, "epoch_start")
    /\ IdleBatch

NextBatches == Train(OneLoss, OneLoss, early_stop_after + 2)

SpecBatches == InitBatches /\ [][NextBatches]_vars

(***************************************************************************)
(* SpecExample: one-batch datasets, validation losses in 3..8.             *)
(***************************************************************************)
ExampleLosses == 3..8

NextExample == Train(OneLoss, ExampleLosses, ExampleEpochs)

SpecExample == Init /\ [][NextExample]_vars

(***************************************************************************)
(* SpecData: _get_padded_batch and Runner.script on every dataset of       *)
(* 1..MaxSamples lines, each 1..MaxWidth columns wide.                     *)
(***************************************************************************)
LineHeights == {1, 2}
Labels == {0, 1}
\* the columns of height h: the all-zero column and the column 1, 2, .., h
Columns(h) == {[y \in 1..h |-> 0], [y \in 1..h |-> y]}
Lines(h) == UNION {[1..w -> Columns(h)] : w \in 1..MaxWidth}
Samples(h) == [line : Lines(h), label : {<<l>> : l \in Labels}]
Datasets == UNION {[1..n -> Samples(h)] : n \in 1..MaxSamples, h \in LineHeights}

InitData ==
    /\ TrainerInit(0, 0, "idle")
    /\ image_data \in Datasets
    /\ result = NotCalled

NextData ==
    \/ GetPaddedBatch
    \/ Script

SpecData == InitData /\ [][NextData]_vars

(***************************************************************************)
(* Properties.                                                             *)
(***************************************************************************)
\* the per-epoch losses of a history whose passes ran one batch
MeanSeq(h) == [i \in DOMAIN h |-> h[i][1] \div h[i][2]]

\* train() has evaluated early stopping on the whole validation history
Evaluated == /\ Len(valid_history) > 0
             /\ pc \in {"done", "epoch_start", "train_loop", "validate", "valid_loop"}

\* C1 as stated: with the validation history [5, 4, 6, 7, 8] the early-stop
\* condition holds and train() stops without a sixth epoch.
C1_StopsAfterFifthEpoch ==
    (MeanSeq(valid_history) = <<5, 4, 6, 7, 8>> /\ Evaluated) => pc = "done"

\* C1 amended: with the validation history [5, 4, 6, 7, 8] the condition does
\* not hold (1 + 4 = 5 is not below 5), train() goes on to a sixth epoch, and
\* it stops after the sixth epoch exactly when the sixth loss is not below 4.
C1_StopsAfterSixthEpoch ==
    LET h == MeanSeq(valid_history)
    IN (Len(h) >= 5 /\ SubSeq(h, 1, 5) = <<5, 4, 6, 7, 8>>) =>
          /\ Len(h) = 5 => pc # "done"
          /\ (Len(h) = 6 /\ Evaluated) => (pc = "done" <=> h[6] >= 4)

C1_Witness ==
    /\ MeanSeq(valid_history) = <<5, 4, 6, 7, 8, 4>>
    /\ pc = "done"

\* 0-based index of the earliest occurrence of the minimum of h
FirstMin(h) ==
    CHOOSE m \in 0..(Len(h) - 1) :
        /\ \A j \in 1..Len(h) : ~RatLess(h[j], h[m + 1])
        /\ \A j \in 1..m : RatLess(h[m + 1], h[j])

StopRule(h) == FirstMin(h) + early_stop_after < Len(h)

\* the last early_stop_after entries of h are all at least as large as some
\* entry before them
PatienceExhausted(h) ==
    /\ Len(h) > early_stop_after
    /\ \E i \in 1..(Len(h) - early_stop_after) :
          \A j \in (Len(h) - early_stop_after + 1)..Len(h) : ~RatLess(h[j], h[i])

\* C2: train() stops at the end of the first epoch at which
\* m + early_stop_after < len(valid_history), m the index of the earliest
\* minimum; that is exactly when early_stop_after epochs have completed after
\* the best one without a strictly smaller loss; it never stops earlier.
C2_EarlyStopRule ==
    LET h == valid_history
    IN /\ pc = "done" => (StopRule(h) /\ PatienceExhausted(h))
       /\ (Evaluated /\ pc # "done") => (~StopRule(h) /\ ~PatienceExhausted(h))
       /\ \A k \in 1..(Len(h) - 1) :
             /\ ~StopRule(SubSeq(h, 1, k))
             /\ ~PatienceExhausted(SubSeq(h, 1, k))

\* a run stopped although a loss equal to the best came after the best epoch
C2_Witness ==
    /\ pc = "done"
    /\ Len(valid_history) > early_stop_after + 1
    /\ \E j \in (FirstMin(valid_history) + 2)..Len(valid_history) :
          valid_history[j] = valid_history[FirstMin(valid_history) + 1]

Terminated == pc \in {"done", "aborted"}

\* C9: with validation losses in a set of MaxLoss values train() terminates;
\* a run that stops has completed at least early_stop_after + 1 epochs, and no
\* run completes more than MaxLoss * (early_stop_after + 1) epochs.
C9_Terminates ==
    /\ [](pc = "done" => Len(valid_history) >= early_stop_after + 1)
    /\ [](Len(valid_history) <= MaxLoss * (early_stop_after + 1))
    /\ <>Terminated

\* the longest run: every value of the losses was the best for 4 epochs
C9_Witness ==
    /\ pc = "done"
    /\ Len(valid_history) = MaxLoss * early_stop_after + 1
    /\ Len(save_log) = Len(valid_history)

\* floor(n / batch_size), by its defining inequality
Floor(n) == CHOOSE q \in 0..n : q * batch_size <= n /\ n < (q + 1) * batch_size

\* the index ranges of the full batches of a dataset of n samples
FullRanges(n) == [k \in 1..Floor(n) |-> <<(k - 1) * batch_size, k * batch_size>>]

Last(h) == h[Len(h)]

\* the validation pass of the last started epoch has appended its entry
ValidationPassed ==
    \/ pc \in {"assert", "save", "early_stop", "done"}
    \/ pc = "epoch_start" /\ Len(valid_history) > 0

\* C3: a pass over N samples processes exactly floor(N / B) batches, batch k
\* over the index range [k*B, (k+1)*B), so that no index at or beyond
\* floor(N / B) * B is evaluated, and it divides the accumulated loss (the sum
\* of loss * B over the batches) by floor(N / B) * B.
C3_FullBatchesOnly ==
    /\ pc = "train_loop" =>
          /\ batch_count = Floor(train_len)
          /\ fed = SubSeq(FullRanges(train_len), 1, batch_id)
    /\ pc = "valid_loop" =>
          /\ batch_count = Floor(valid_len)
          /\ fed = SubSeq(FullRanges(valid_len), 1, batch_id)
    /\ pc = "validate" =>
          /\ fed = FullRanges(train_len)
          /\ \A r \in 1..Len(fed) : fed[r][2] <= train_len
          /\ epoch_loss \in {l * batch_size * Len(fed) : l \in OneLoss}
          /\ Last(train_history) = <<epoch_loss, Floor(train_len) * batch_size>>
    /\ ValidationPassed =>
          /\ fed = FullRanges(valid_len)
          /\ \A r \in 1..Len(fed) : fed[r][2] <= valid_len
          /\ epoch_loss \in {l * batch_size * Len(fed) : l \in OneLoss}
          /\ Last(valid_history) = <<epoch_loss, Floor(valid_len) * batch_size>>
    /\ \A i \in DOMAIN train_history : train_history[i][2] = Floor(train_len) * batch_size
    /\ \A i \in DOMAIN valid_history : valid_history[i][2] = Floor(valid_len) * batch_size

\* N = 100, B = 32: 3 batches, divisor 96
C3_Witness ==
    /\ train_len = 100
    /\ pc = "validate"
    /\ fed = <<<<0, 32>>, <<32, 64>>, <<64, 96>>>>
    /\ Last(train_history)[2] = 96
    /\ Len(train_history) = 2

\* C10: a pass over a dataset of fewer than batch_size samples forms no batch
\* and ends in the division by zero without appending: the training pass with
\* both histories empty, the validation pass with the training entry appended
\* and the validation history one shorter; no checkpoint is persisted.
C10_TooSmallDataset ==
    /\ (train_len < batch_size /\ pc \notin {"epoch_start", "train_loop"}) =>
          /\ pc = "aborted" /\ err = "ZeroDivisionError"
          /\ train_history = <<>> /\ valid_history = <<>>
          /\ fed = <<>> /\ steps = 0
          /\ save_log = <<>> /\ DOMAIN checkpoints = {}
    /\ (train_len >= batch_size /\ valid_len < batch_size
           /\ pc \notin {"epoch_start", "train_loop", "validate", "valid_loop"}) =>
          /\ pc = "aborted"
          /\ err = "ZeroDivisionError" =>
                /\ Len(train_history) = 1 /\ valid_history = <<>>
                /\ Len(train_history) = Len(valid_history) + 1
                /\ fed = <<>>
          /\ save_log = <<>> /\ DOMAIN checkpoints = {}
    /\ err = "ZeroDivisionError" => (train_len < batch_size \/ valid_len < batch_size)

C10_Witness ==
    /\ err = "ZeroDivisionError"
    /\ train_len >= batch_size
    /\ valid_len < batch_size
    /\ Len(train_history) = 1

\* the order of the steps of one iteration of train()
StepOrder ==
    {<<"epoch_start", "train_loop">>, <<"train_loop", "validate">>,
     <<"validate", "valid_loop">>, <<"valid_loop", "assert">>,
     <<"assert", "save">>, <<"save", "early_stop">>,
     <<"early_stop", "epoch_start">>, <<"early_stop", "done">>}

\* C6: every iteration runs training epoch, validation pass, assertion,
\* checkpoint under the index len(train_history) - 1, early-stop evaluation, in
\* this order; so the checkpoints persisted are 0, 1, .., n-1, each written once
\* in increasing order, none overwritten or removed, and the checkpoint of the
\* final epoch is persisted before the loop stops.
C6_CheckpointPerEpoch ==
    /\ [](/\ save_log = [e \in 1..Len(save_log) |-> e - 1]
          /\ DOMAIN checkpoints = {e - 1 : e \in 1..Len(save_log)}
          /\ pc = "done" => Len(save_log) = Len(train_history))
    /\ [][/\ pc' # pc => (<<pc, pc'>> \in StepOrder \/ pc' = "aborted")
          /\ Len(train_history') > Len(train_history) =>
                (Len(valid_history) = Len(train_history) /\ Len(save_log) = Len(train_history))
          /\ Len(valid_history') > Len(valid_history) =>
                (Len(train_history) = Len(valid_history) + 1 /\ Len(save_log) = Len(valid_history))
          /\ save_log' # save_log =>
                /\ pc = "save"
                /\ Len(train_history) = Len(save_log) + 1
                /\ Len(valid_history) = Len(save_log) + 1
                /\ save_log' = Append(save_log, Len(train_history) - 1)
                /\ checkpoints'[Len(train_history) - 1] = steps
          /\ pc' = "done" => (pc = "early_stop" /\ Len(save_log) = Len(valid_history))
          /\ \A e \in DOMAIN checkpoints :
                e \in DOMAIN checkpoints' /\ checkpoints'[e] = checkpoints[e]
         ]_vars

C6_Witness ==
    /\ pc = "done"
    /\ save_log = <<0, 1, 2, 3, 4>>
    /\ checkpoints[4] = 5

\* the number of training epochs whose batches have all run
EpochsRun(n) == steps \div Floor(n)

IsPrefix(a, b) == Len(a) <= Len(b) /\ SubSeq(b, 1, Len(a)) = a

\* C7: at the assertion, the checkpoint and the early-stop evaluation both
\* histories are as long as the number of completed epochs; a history changes
\* only by one appended entry, its earlier entries staying as they were.
C7_HistoriesGrowByOne ==
    /\ [](pc \in {"assert", "save", "early_stop", "done"} =>
             /\ Len(train_history) = Len(valid_history)
             /\ Len(train_history) = EpochsRun(train_len))
    /\ [][/\ IsPrefix(train_history, train_history')
          /\ IsPrefix(valid_history, valid_history')
          /\ Len(train_history') <= Len(train_history) + 1
          /\ Len(valid_history') <= Len(valid_history) + 1
          /\ (pc = "early_stop" /\ pc' = "epoch_start") =>
                Len(train_history) = Len(save_log)
          /\ (pc = "valid_loop" /\ pc' = "assert") =>
                /\ Len(train_history') = Len(save_log) + 1
                /\ Len(valid_history') = Len(save_log) + 1
         ]_vars

C7_Witness ==
    /\ pc = "early_stop"
    /\ Len(train_history) = 3
    /\ Len(valid_history) = 3
    /\ train_history[1] # train_history[2]
    /\ valid_history[2] # valid_history[3]

\* C8 as stated: a tensor-execution failure in a batch of either pass aborts
\* train() and the epoch in progress leaves no entry in either history and no
\* checkpoint.
C8_NoEntryOfFailedEpoch ==
    err = "TensorError" =>
        /\ pc = "aborted"
        /\ Len(train_history) = Len(save_log)
        /\ Len(valid_history) = Len(save_log)

\* C8 amended: a tensor-execution failure in a batch of either pass aborts
\* train() with no retry; the epoch in progress leaves no entry in the
\* validation history and no checkpoint, and no entry in the training history
\* when the failure is in the training epoch, but the entry the training epoch
\* has appended stays when the failure is in the validation pass; the
\* checkpoints of earlier epochs are unchanged.
C8_FailedEpoch ==
    /\ [](err = "TensorError" =>
             /\ pc = "aborted"
             /\ Len(valid_history) = Len(save_log)
             /\ Len(train_history) \in {Len(save_log), Len(save_log) + 1}
             /\ DOMAIN checkpoints = {e - 1 : e \in 1..Len(save_log)})
    /\ [][/\ pc # "aborted"
          /\ (err = None /\ err' = "TensorError") =>
                /\ pc \in {"train_loop", "valid_loop"}
                /\ train_history' = train_history
                /\ valid_history' = valid_history
                /\ checkpoints' = checkpoints
                /\ save_log' = save_log
                /\ pc = "train_loop" => Len(train_history) = Len(save_log)
                /\ pc = "valid_loop" => Len(train_history) = Len(save_log) + 1
         ]_vars

\* the validation pass of the third epoch failed
C8_Witness ==
    /\ err = "TensorError"
    /\ Len(save_log) = 2
    /\ Len(valid_history) = 2
    /\ Len(train_history) = 3

\* C4: a batch over [from, to), to - from > 0, holds the samples from, .., to-1
\* in dataset order; widths, labels and padded images number to - from;
\* widths[i] is the native width of sample i; every padded image is max(widths)
\* wide, equal to the original on its first widths[i] columns and to the
\* padding constant on the others, in columns of the original height.
C4_PaddedBatch ==
    (result.call = "_get_padded_batch" /\ result.error = None) =>
        LET n == result.to_elem - result.from_elem
            sample(i) == image_data[result.from_elem + i]
        IN /\ n > 0
           /\ Len(result.line) = n
           /\ Len(result.line_width) = n
           /\ Len(result.labels) = n
           /\ \E i \in 1..n : \A j \in 1..n :
                 /\ result.line_width[j] <= result.line_width[i]
                 /\ Len(result.line[j]) = result.line_width[i]
           /\ \A i \in 1..n :
                 LET original == sample(i).line
                     height == Len(original[1])
                 IN /\ result.labels[i] = sample(i).label
                    /\ result.line_width[i] = Len(original)
                    /\ \A x \in 1..Len(result.line[i]) :
                          result.line[i][x] =
                             IF x <= Len(original) THEN original[x]
                             ELSE [y \in 1..height |-> 0]

\* a batch whose first line is the wider one and whose second line is padded
C4_Witness ==
    /\ result.call = "_get_padded_batch"
    /\ result.error = None
    /\ result.line_width = <<2, 1>>
    /\ Len(image_data[2].line[1]) = 2
    /\ image_data[2].line[1][2] = 2
    /\ result.line[2][2] = <<0, 0>>

\* C5: Runner.script(line) does not end in an error and returns the class id
\* that the batch path gives for the line as the only member of a result.
C5_ScriptPredicts ==
    result.call = "script" =>
        /\ result.error = None
        /\ LET alone == <<[line |-> result.line, label |-> <<1>>]>>
               b == _get_padded_batch(alone, 0, 1, padding_value)
           IN result.output = outputs(b.line, b.line_width)

TypeOK == pc \in {"epoch_start", "train_loop", "validate", "valid_loop",
                  "assert", "save", "early_stop", "done", "aborted", "idle"}
====
